---- MODULE Spec2Model ----
(***************************************************************************)
(* Model of app/app_main.c of libamvp: main() as a sequential state        *)
(* machine.  One action per statement block of main(); every call into     *)
(* libamvp (or into the other app modules) is a collaborator call whose    *)
(* outcome is chosen nondeterministically and recorded in `calls`.         *)
(***************************************************************************)
EXTENDS Integers, Sequences, FiniteSets, TLC

(* ------------------------------ bounds --------------------------------- *)
\* at most this many options (command line flags plus environment settings)
\* are given in one invocation
MaxOptions == 3
\* AMVP_RESULT values are 0 (AMVP_SUCCESS) .. MaxResult
MaxResult == 1
\* amvp_get_vector_set_count returns -1 (unknown) .. MaxCount
MaxCount == 1

(* ----------------------------- constants ------------------------------- *)
AMVP_SUCCESS == 0
AMVP_RESULT == 0 .. MaxResult
NULL == "NULL"
DEFAULT_SERVER == "127.0.0.1"
NoStatus == -1

\* the fields of APP_CONFIG that main() reads
Flags ==
    { "disable_fips", "sample", "get", "save_to", "post", "delete",
      "vector_req", "vector_rsp", "manual_reg", "hash", "get_cost",
      "get_reg", "kat", "fips_validation", "vector_upload", "empty_alg",
      "put", "get_results", "resume_session", "cancel_session",
      "get_expected", "post_resources", "mod_cert_req" }

VARIABLES
    pc,            \* position in main()
    cfg,           \* APP_CONFIG cfg
    server,        \* const char *server
    ca_chain_file, \* const char *ca_chain_file (set or NULL)
    cert_file,     \* char *cert_file (set or NULL)
    key_file,      \* char *key_file (set or NULL)
    rv,            \* AMVP_RESULT rv of main()
    diff,          \* int diff of main()
    ctx,           \* AMVP_CTX *ctx of main()
    calls,         \* collaborator calls made so far, with their outcome
    printed,       \* messages main() and enable_hash() printed so far
    exit_status    \* value returned by main(), NoStatus while running

vars == << pc, cfg, server, ca_chain_file, cert_file, key_file, rv, diff,
           ctx, calls, printed, exit_status >>

envv == << server, ca_chain_file, cert_file, key_file >>

(* ------------------------------ helpers -------------------------------- *)
RECURSIVE SubsetsUpTo(_, _)
SubsetsUpTo(S, n) ==
    IF n = 0 THEN { {} }
    ELSE LET P == SubsetsUpTo(S, n - 1)
         IN  P \cup { s \cup {f} : s \in P, f \in S }

\* memset_s(&cfg, sizeof(APP_CONFIG), 0, sizeof(APP_CONFIG))
ZeroConfig == [ f \in Flags |-> FALSE ]

NumSet(c) == Cardinality({ f \in Flags : c[f] })

Invoke(fn, ok) == calls' = Append(calls, [ fn |-> fn, ok |-> ok ])
Invoke2(fn1, ok1, fn2, ok2) ==
    calls' = calls \o << [ fn |-> fn1, ok |-> ok1 ], [ fn |-> fn2, ok |-> ok2 ] >>
Say(m) == printed' = Append(printed, m)

\* the statement blocks of main() in program order
Blocks ==
    << "ingest_cli", "fips_startup", "setup_session_parameters",
       "create_test_session", "set_server", "set_api_context",
       "set_path_segment", "set_cacerts", "set_certkey", "two_factor",
       "sample", "get", "post", "delete", "request_only", "rsp_only",
       "registration", "get_cost", "get_reg", "kat", "offline",
       "server_warning", "fips_ingest", "fips_set", "vector_upload",
       "put_empty", "put_mark", "get_results", "resume_session",
       "cancel_session", "get_expected", "post_resources", "mod_cert_req",
       "run", "end", "done" >>

\* the condition of the if statement that guards block l
BlockSelected(l) ==
    CASE l = "set_cacerts" -> ca_chain_file
      [] l = "set_certkey" -> cert_file /\ key_file
      [] l = "sample" -> cfg.sample
      [] l = "get" -> cfg.get
      [] l = "post" -> cfg.post
      [] l = "delete" -> cfg.delete
      [] l = "request_only" -> cfg.vector_req /\ ~cfg.vector_rsp
      [] l = "rsp_only" -> ~cfg.vector_req /\ cfg.vector_rsp
      [] l = "registration" -> cfg.manual_reg \/ cfg.hash
      [] l = "get_cost" -> cfg.get_cost
      [] l = "get_reg" -> cfg.get_reg
      [] l = "kat" -> cfg.kat
      [] l = "offline" -> cfg.vector_req /\ cfg.vector_rsp
      [] l = "fips_ingest" -> cfg.fips_validation
      [] l = "fips_set" -> cfg.fips_validation
      [] l = "vector_upload" -> cfg.vector_upload
      [] l = "put_empty" -> cfg.empty_alg /\ cfg.put
      [] l = "put_mark" -> ~cfg.empty_alg /\ cfg.put
      [] l = "get_results" -> cfg.get_results
      [] l = "resume_session" -> cfg.resume_session
      [] l = "cancel_session" -> cfg.cancel_session
      [] l = "get_expected" -> cfg.get_expected
      [] l = "post_resources" -> cfg.post_resources
      [] l = "mod_cert_req" -> cfg.mod_cert_req
      [] OTHER -> TRUE

\* the block after l in program order
FallThrough(l) ==
    Blocks[(CHOOSE i \in 1 .. Len(Blocks) : Blocks[i] = l) + 1]

\* control arriving at block l runs the first block from l on whose
\* condition holds; a block whose condition fails has no effect.  cfg and
\* the file settings are final before the first guarded block is reached.
RECURSIVE Resolve(_)
Resolve(l) == IF BlockSelected(l) THEN l ELSE Resolve(FallThrough(l))

Goto(l) == pc' = Resolve(l)

(* ----------------------- statement patterns of main() ------------------ *)
\* rv = f(ctx, ...); if (rv != AMVP_SUCCESS) { printf(msg); goto end; }
SetupCall(at, fn, msg, next) ==
    /\ pc = at /\ BlockSelected(at)
    /\ \E r \in AMVP_RESULT :
         /\ rv' = r
         /\ Invoke(fn, r = AMVP_SUCCESS)
         /\ IF r # AMVP_SUCCESS
            THEN Say(msg) /\ Goto("end")
            ELSE UNCHANGED printed /\ Goto(next)
    /\ UNCHANGED << cfg, envv, diff, ctx, exit_status >>

\* f(ctx, ...);   the result of the call is discarded
VoidCall(at, fn, next) ==
    /\ pc = at /\ BlockSelected(at)
    /\ \E ok \in BOOLEAN : Invoke(fn, ok)
    /\ Goto(next)
    /\ UNCHANGED << cfg, envv, rv, diff, ctx, printed, exit_status >>

\* rv = f(ctx, ...); goto end;
TerminalCall(at, fn) ==
    /\ pc = at /\ BlockSelected(at)
    /\ \E r \in AMVP_RESULT :
         /\ rv' = r
         /\ Invoke(fn, r = AMVP_SUCCESS)
    /\ Goto("end")
    /\ UNCHANGED << cfg, envv, diff, ctx, printed, exit_status >>

\* rv = f(ctx, ...);   with no test of rv
SideCall(at, fn, next) ==
    /\ pc = at /\ BlockSelected(at)
    /\ \E r \in AMVP_RESULT :
         /\ rv' = r
         /\ Invoke(fn, r = AMVP_SUCCESS)
    /\ Goto(next)
    /\ UNCHANGED << cfg, envv, diff, ctx, printed, exit_status >>

(* --------------------------- initial state ----------------------------- *)
Init ==
    /\ pc = "ingest_cli"
    /\ cfg = ZeroConfig
    /\ server = NULL
    /\ ca_chain_file = FALSE
    /\ cert_file = FALSE
    /\ key_file = FALSE
    /\ rv = AMVP_SUCCESS
    /\ diff = 0
    /\ ctx = NULL
    /\ calls = << >>
    /\ printed = << >>
    /\ exit_status = NoStatus

(* ------------------------- startup, before ctx ------------------------- *)
\* if (ingest_cli(&cfg, argc, argv)) return 1;
IngestCli ==
    /\ pc = "ingest_cli"
    /\ \/ /\ Invoke("ingest_cli", FALSE)
          /\ exit_status' = 1
          /\ Goto("done")
          /\ UNCHANGED cfg
       \/ \E S \in SubsetsUpTo(Flags, MaxOptions) :
            /\ cfg' = [ f \in Flags |-> f \in S ]
            /\ Invoke("ingest_cli", TRUE)
            /\ Goto("fips_startup")
            /\ UNCHANGED exit_status
    /\ UNCHANGED << envv, rv, diff, ctx, printed >>

\* #if OPENSSL_VERSION_NUMBER >= 0x30000000L ... #endif
\* (a build without OpenSSL 3 behaves as the last disjunct with no output)
FipsStartup ==
    /\ pc = "fips_startup"
    /\ IF ~cfg.disable_fips
       THEN \/ /\ Invoke("EVP_default_properties_enable_fips", FALSE)
               /\ Say("Error setting FIPS property at startup")
               /\ exit_status' = 1
               /\ Goto("done")
               /\ UNCHANGED rv
            \/ \E r \in AMVP_RESULT :
                 /\ Invoke2("EVP_default_properties_enable_fips", TRUE,
                            "fips_sanity_check", r = AMVP_SUCCESS)
                 /\ rv' = r
                 /\ IF r # AMVP_SUCCESS
                    THEN /\ Say("Error occured when testing FIPS at startup")
                         /\ exit_status' = 1
                         /\ Goto("done")
                    ELSE /\ UNCHANGED << printed, exit_status >>
                         /\ Goto("setup_session_parameters")
            \/ /\ Goto("setup_session_parameters")
               /\ UNCHANGED << calls, printed, exit_status, rv >>
       ELSE /\ Say("WARNING: You have chosen to not fetch the FIPS provider")
            /\ Goto("setup_session_parameters")
            /\ UNCHANGED << calls, exit_status, rv >>
    /\ UNCHANGED << cfg, envv, diff, ctx >>

\* setup_session_parameters(): the globals read from the environment
SetupSessionParameters ==
    /\ pc = "setup_session_parameters"
    /\ \E E \in SubsetsUpTo({ "AMV_SERVER", "AMV_CA_FILE", "AMV_CERT_FILE",
                              "AMV_KEY_FILE" }, MaxOptions - NumSet(cfg)) :
         /\ server' = IF "AMV_SERVER" \in E THEN "server" ELSE DEFAULT_SERVER
         /\ ca_chain_file' = ("AMV_CA_FILE" \in E)
         /\ cert_file' = ("AMV_CERT_FILE" \in E)
         /\ key_file' = ("AMV_KEY_FILE" \in E)
    /\ Say("Using the following parameters")
    /\ Goto("create_test_session")
    /\ UNCHANGED << cfg, rv, diff, ctx, calls, exit_status >>

(* --------------------------- session setup ----------------------------- *)
\* mutant: the failure branch returns rv at once, as the startup checks do
CreateTestSession_ReturnsOnFailure ==
    /\ pc = "create_test_session"
    /\ \E r \in AMVP_RESULT :
         /\ rv' = r
         /\ Invoke("amvp_create_test_session", r = AMVP_SUCCESS)
         /\ IF r # AMVP_SUCCESS
            THEN /\ Say("Failed to create AMVP context")
                 /\ exit_status' = r
                 /\ Goto("done")
                 /\ UNCHANGED ctx
            ELSE /\ ctx' = "ctx"
                 /\ Goto("set_server")
                 /\ UNCHANGED << printed, exit_status >>
    /\ UNCHANGED << cfg, envv, diff >>

\* rv = amvp_create_test_session(&ctx, &progress, cfg.level);
CreateTestSession ==
    /\ pc = "create_test_session"
    /\ \E r \in AMVP_RESULT :
         /\ rv' = r
         /\ Invoke("amvp_create_test_session", r = AMVP_SUCCESS)
         /\ IF r # AMVP_SUCCESS
            THEN /\ Say("Failed to create AMVP context")
                 /\ Goto("end")
                 /\ UNCHANGED ctx
            ELSE /\ ctx' = "ctx"
                 /\ Goto("set_server")
                 /\ UNCHANGED printed
    /\ UNCHANGED << cfg, envv, diff, exit_status >>

SetServer ==
    SetupCall("set_server", "amvp_set_server", "Failed to set server/port",
              "set_api_context")

SetApiContext ==
    SetupCall("set_api_context", "amvp_set_api_context",
              "Failed to set URI prefix", "set_path_segment")

SetPathSegment ==
    SetupCall("set_path_segment", "amvp_set_path_segment",
              "Failed to set URI prefix", "set_cacerts")

\* if (ca_chain_file) { rv = amvp_set_cacerts(...); ... }
SetCacerts ==
    SetupCall("set_cacerts", "amvp_set_cacerts", "Failed to set CA certs",
              "set_certkey")

\* if (cert_file && key_file) { rv = amvp_set_certkey(...); ... }
SetCertkey ==
    SetupCall("set_certkey", "amvp_set_certkey",
              "Failed to set TLS cert/key", "two_factor")

\* mutant: the result of the two-factor setup is ignored
SetupTwoFactorAuth_Ignored ==
    VoidCall("two_factor", "app_setup_two_factor_auth", "sample")

\* if (app_setup_two_factor_auth(ctx)) goto end;     (rv is not assigned)
SetupTwoFactorAuth ==
    /\ pc = "two_factor"
    /\ \E ok \in BOOLEAN :
         /\ Invoke("app_setup_two_factor_auth", ok)
         /\ Goto(IF ok THEN "sample" ELSE "end")
    /\ UNCHANGED << cfg, envv, rv, diff, ctx, printed, exit_status >>

(* ------------------------------ marking -------------------------------- *)
\* if (cfg.sample) amvp_mark_as_sample(ctx);
MarkSample ==
    VoidCall("sample", "amvp_mark_as_sample", "get")

\* if (cfg.get) { rv = amvp_mark_as_get_only(...); ... else if (cfg.save_to) ... }
MarkGetOnly ==
    /\ pc = "get"
    /\ \E r \in AMVP_RESULT :
         IF r # AMVP_SUCCESS
         THEN /\ rv' = r
              /\ Invoke("amvp_mark_as_get_only", FALSE)
              /\ Say("Failed to mark as get only.")
              /\ Goto("end")
         ELSE IF cfg.save_to
         THEN \E r2 \in AMVP_RESULT :
                /\ rv' = r2
                /\ Invoke2("amvp_mark_as_get_only", TRUE,
                           "amvp_set_get_save_file", r2 = AMVP_SUCCESS)
                /\ IF r2 # AMVP_SUCCESS
                   THEN Say("Failed to set save file for get request, continuing anyway...")
                   ELSE UNCHANGED printed
                /\ Goto("post")
         ELSE /\ rv' = r
              /\ Invoke("amvp_mark_as_get_only", TRUE)
              /\ UNCHANGED printed
              /\ Goto("post")
    /\ UNCHANGED << cfg, envv, diff, ctx, exit_status >>

\* if (cfg.post) amvp_mark_as_post_only(ctx, cfg.post_filename);
MarkPostOnly ==
    VoidCall("post", "amvp_mark_as_post_only", "delete")

\* if (cfg.delete) amvp_mark_as_delete_only(ctx, cfg.delete_url);
MarkDeleteOnly ==
    VoidCall("delete", "amvp_mark_as_delete_only", "request_only")

\* if (cfg.vector_req && !cfg.vector_rsp) amvp_mark_as_request_only(...);
MarkRequestOnly ==
    VoidCall("request_only", "amvp_mark_as_request_only", "rsp_only")

\* mutant: the message is printed but the goto end is missing
VectorRspOnly_NoGoto ==
    /\ pc = "rsp_only"
    /\ Say("Offline vector processing requires both options, --vector_req and --vector_rsp")
    /\ Goto("registration")
    /\ UNCHANGED << cfg, envv, rv, diff, ctx, calls, exit_status >>

\* if (!cfg.vector_req && cfg.vector_rsp) { printf(...); goto end; }
VectorRspOnly ==
    /\ pc = "rsp_only"
    /\ Say("Offline vector processing requires both options, --vector_req and --vector_rsp")
    /\ Goto("end")
    /\ UNCHANGED << cfg, envv, rv, diff, ctx, calls, exit_status >>

(* ---------------------------- registration ---------------------------- *)
\* mutant: the CHECK_ENABLE_CAP_RV after amvp_cap_hash_enable is missing
enable_hash_NoFirstCheck(r1, r2) ==
    [ calls |-> << [ fn |-> "amvp_cap_hash_enable", ok |-> (r1 = AMVP_SUCCESS) ],
                   [ fn |-> "amvp_cap_hash_set_domain",
                     ok |-> (r2 = AMVP_SUCCESS) ] >>,
      printed |-> IF r2 # AMVP_SUCCESS
                  THEN << "Failed to register capability with libamvp" >>
                  ELSE << >>,
      rv |-> r2 ]

\* static int enable_hash(AMVP_CTX *ctx), with r1 and r2 the results of
\* amvp_cap_hash_enable and amvp_cap_hash_set_domain: the calls it makes,
\* what CHECK_ENABLE_CAP_RV prints, and the value it returns.
enable_hash(r1, r2) ==
    IF r1 # AMVP_SUCCESS
    THEN [ calls |-> << [ fn |-> "amvp_cap_hash_enable", ok |-> FALSE ] >>,
           printed |-> << "Failed to register capability with libamvp" >>,
           rv |-> r1 ]
    ELSE [ calls |-> << [ fn |-> "amvp_cap_hash_enable", ok |-> TRUE ],
                        [ fn |-> "amvp_cap_hash_set_domain",
                          ok |-> (r2 = AMVP_SUCCESS) ] >>,
           printed |-> IF r2 # AMVP_SUCCESS
                       THEN << "Failed to register capability with libamvp" >>
                       ELSE << >>,
           rv |-> r2 ]

\* mutant: the hash capability is registered before manual_reg is looked at
Registration_HashFirst ==
    IF cfg.hash
    THEN /\ pc = "registration"
         /\ \E r1 \in AMVP_RESULT, r2 \in AMVP_RESULT :
              LET h == enable_hash(r1, r2)
              IN  /\ calls' = calls \o h.calls
                  /\ printed' = printed \o h.printed
                  /\ Goto(IF h.rv # 0 THEN "end" ELSE "get_cost")
         /\ UNCHANGED << cfg, envv, rv, diff, ctx, exit_status >>
    ELSE SetupCall("registration", "amvp_set_json_filename",
                   "Failed to set json file within AMVP ctx", "get_cost")

\* if (cfg.manual_reg) { rv = amvp_set_json_filename(...); ... }
\* else { if (cfg.hash) { if (enable_hash(ctx)) goto end; } }
Registration ==
    IF cfg.manual_reg
    THEN SetupCall("registration", "amvp_set_json_filename",
                   "Failed to set json file within AMVP ctx", "get_cost")
    ELSE /\ pc = "registration"
         /\ \E r1 \in AMVP_RESULT, r2 \in AMVP_RESULT :
              LET h == enable_hash(r1, r2)
              IN  /\ calls' = calls \o h.calls
                  /\ printed' = printed \o h.printed
                  /\ Goto(IF h.rv # 0 THEN "end" ELSE "get_cost")
         /\ UNCHANGED << cfg, envv, rv, diff, ctx, exit_status >>

(* ------------------------------ dispatch ------------------------------- *)
\* mutant: the cost estimate is tested after get_reg instead of before it
GetCost_AfterGetReg ==
    IF ~cfg.get_reg
    THEN /\ pc = "get_cost"
         /\ \E n \in -1 .. MaxCount :
              /\ diff' = n
              /\ Invoke("amvp_get_vector_set_count", n >= 0)
              /\ IF n < 0
                 THEN Say("Unable to get expected vector set count with given test session context.")
                 ELSE Say("The given test session context is expected to generate %d vector sets.")
         /\ Goto("end")
         /\ UNCHANGED << cfg, envv, rv, ctx, exit_status >>
    ELSE /\ pc = "get_cost"
         /\ Goto("get_reg")
         /\ UNCHANGED << cfg, envv, rv, diff, ctx, calls, printed, exit_status >>

\* if (cfg.get_cost) { diff = amvp_get_vector_set_count(ctx); ...; goto end; }
GetCost ==
    /\ pc = "get_cost"
    /\ \E n \in -1 .. MaxCount :
         /\ diff' = n
         /\ Invoke("amvp_get_vector_set_count", n >= 0)
         /\ IF n < 0
            THEN Say("Unable to get expected vector set count with given test session context.")
            ELSE Say("The given test session context is expected to generate %d vector sets.")
    /\ Goto("end")
    /\ UNCHANGED << cfg, envv, rv, ctx, exit_status >>

\* if (cfg.get_reg) { reg = amvp_get_current_registration(ctx, NULL); ...; goto end; }
GetReg ==
    /\ pc = "get_reg"
    /\ \/ /\ Invoke("amvp_get_current_registration", FALSE)
          /\ Say("Error occured while getting current registration.")
       \/ /\ cfg.save_to
          /\ \E saved \in BOOLEAN :
               /\ Invoke2("amvp_get_current_registration", TRUE,
                          "save_string_to_file", saved)
               /\ IF saved
                  THEN Say("Succesfully saved registration to given file. Exiting...")
                  ELSE Say("Error occured while saving registration to file. Exiting...")
       \/ /\ ~cfg.save_to
          /\ Invoke("amvp_get_current_registration", TRUE)
          /\ printed' = printed \o
                << "%s", "Completed output of current registration. Exiting..." >>
    /\ Goto("end")
    /\ UNCHANGED << cfg, envv, rv, diff, ctx, exit_status >>

\* if (cfg.kat) { rv = amvp_load_kat_filename(ctx, cfg.kat_file); goto end; }
Kat ==
    TerminalCall("kat", "amvp_load_kat_filename")

\* mutant: the goto end after the offline run is missing
RunVectorsFromFile_FallsThrough ==
    SideCall("offline", "amvp_run_vectors_from_file", "server_warning")

\* if (cfg.vector_req && cfg.vector_rsp) { rv = amvp_run_vectors_from_file(...); goto end; }
RunVectorsFromFile ==
    TerminalCall("offline", "amvp_run_vectors_from_file")

\* strncmp_s(DEFAULT_SERVER, DEFAULT_SERVER_LEN, server, DEFAULT_SERVER_LEN, &diff);
\* if (!diff) { printf("Warning: No server set, using default. ..."); }
ServerWarning ==
    /\ pc = "server_warning"
    /\ diff' = IF server = DEFAULT_SERVER THEN 0 ELSE 1
    /\ IF diff' = 0
       THEN Say("Warning: No server set, using default.")
       ELSE UNCHANGED printed
    /\ Goto("fips_ingest")
    /\ UNCHANGED << cfg, envv, rv, ctx, calls, exit_status >>

\* if (cfg.fips_validation) { rv = amvp_oe_ingest_metadata(...); ...
FipsIngestMetadata ==
    SetupCall("fips_ingest", "amvp_oe_ingest_metadata",
              "Failed to read validation_metadata_file", "fips_set")

\* mutant: the result of binding the metadata is not tested
FipsSetMetadata_Unchecked ==
    SideCall("fips_set", "amvp_oe_set_fips_validation_metadata", "vector_upload")

\*   ... rv = amvp_oe_set_fips_validation_metadata(ctx, module_id, oe_id); ... }
FipsSetMetadata ==
    SetupCall("fips_set", "amvp_oe_set_fips_validation_metadata",
              "Failed to set metadata for FIPS validation", "vector_upload")

\* mutant: the goto end after the upload is missing
VectorUpload_FallsThrough ==
    SideCall("vector_upload", "amvp_upload_vectors_from_file", "put_empty")

\* if (cfg.vector_upload) { rv = amvp_upload_vectors_from_file(...); goto end; }
VectorUpload ==
    TerminalCall("vector_upload", "amvp_upload_vectors_from_file")

\* mutant: the two branches of the PUT handling are exchanged
PutEmptyAlg_Marks ==
    VoidCall("put_empty", "amvp_mark_as_put_after_test", "get_results")

\* if (cfg.empty_alg && cfg.put) { rv = amvp_put_data_from_file(...); goto end; }
PutEmptyAlg ==
    TerminalCall("put_empty", "amvp_put_data_from_file")

\* if (!cfg.empty_alg && cfg.put) amvp_mark_as_put_after_test(ctx, cfg.put_filename);
PutAfterTest ==
    VoidCall("put_mark", "amvp_mark_as_put_after_test", "get_results")

\* mutant: the goto end after fetching the results is missing
GetResults_FallsThrough ==
    SideCall("get_results", "amvp_get_results_from_server", "resume_session")

\* if (cfg.get_results) { rv = amvp_get_results_from_server(...); goto end; }
GetResults ==
    TerminalCall("get_results", "amvp_get_results_from_server")

\* if (cfg.resume_session) { rv = amvp_resume_test_session(...); goto end; }
ResumeSession ==
    TerminalCall("resume_session", "amvp_resume_test_session")

\* if (cfg.cancel_session) { rv = amvp_cancel_test_session(...); goto end; }
CancelSession ==
    TerminalCall("cancel_session", "amvp_cancel_test_session")

\* if (cfg.get_expected) { rv = amvp_get_expected_results(...); goto end; }
GetExpected ==
    TerminalCall("get_expected", "amvp_get_expected_results")

\* if (cfg.post_resources) rv = amvp_mark_as_post_resources(...);
PostResources ==
    SideCall("post_resources", "amvp_mark_as_post_resources", "mod_cert_req")

\* mutant: a failure to mark the certification request ends the dispatch
ModCertReq_Checked ==
    SetupCall("mod_cert_req", "amvp_mark_as_cert_req",
              "Failed to mark as cert req", "run")

\* if (cfg.mod_cert_req) rv = amvp_mark_as_cert_req(...);
ModCertReq ==
    SideCall("mod_cert_req", "amvp_mark_as_cert_req", "run")

\* mutant: the context is released before the run instead of after it
Run_CleansUpFirst ==
    /\ pc = "run"
    /\ \E ok \in BOOLEAN : Invoke2("amvp_cleanup", TRUE, "amvp_run", ok)
    /\ Goto("end")
    /\ UNCHANGED << cfg, envv, rv, diff, ctx, printed, exit_status >>

\* amvp_run(ctx, cfg.fips_validation);
Run == VoidCall("run", "amvp_run", "end")

(* ------------------------------ teardown ------------------------------- *)
\* static void app_cleanup(AMVP_CTX *ctx) { amvp_cleanup(ctx); }
app_cleanup == Invoke("amvp_cleanup", TRUE)

\* end: app_cleanup(ctx); return rv;
End ==
    /\ pc = "end"
    /\ app_cleanup
    /\ exit_status' = rv
    /\ Goto("done")
    /\ UNCHANGED << cfg, envv, rv, diff, ctx, printed >>

Next ==
    \/ IngestCli \/ FipsStartup \/ SetupSessionParameters
    \/ CreateTestSession \/ SetServer \/ SetApiContext \/ SetPathSegment
    \/ SetCacerts \/ SetCertkey \/ SetupTwoFactorAuth
    \/ MarkSample \/ MarkGetOnly \/ MarkPostOnly \/ MarkDeleteOnly
    \/ MarkRequestOnly \/ VectorRspOnly \/ Registration
    \/ GetCost \/ GetReg \/ Kat \/ RunVectorsFromFile \/ ServerWarning
    \/ FipsIngestMetadata \/ FipsSetMetadata \/ VectorUpload
    \/ PutEmptyAlg \/ PutAfterTest \/ GetResults \/ ResumeSession
    \/ CancelSession \/ GetExpected \/ PostResources \/ ModCertReq
    \/ Run \/ End

Spec == Init /\ [][Next]_vars

(* =========================== properties =============================== *)
Called(fn) == \E i \in 1 .. Len(calls) : calls[i].fn = fn
Count(fn) == Cardinality({ i \in 1 .. Len(calls) : calls[i].fn = fn })
Failed(fn) == \E i \in 1 .. Len(calls) : calls[i].fn = fn /\ ~calls[i].ok
\* one of the calls in fns reported a failure
FailedAny(fns) == \E i \in 1 .. Len(calls) : calls[i].fn \in fns /\ ~calls[i].ok
Printed(m) == \E i \in 1 .. Len(printed) : printed[i] = m
\* every invocation of fn is followed, later in the run, by amvp_run
RunAfter(fn) ==
    \A i \in 1 .. Len(calls) :
        calls[i].fn = fn => \E j \in (i + 1) .. Len(calls) : calls[j].fn = "amvp_run"

SingleShotFlags ==
    { "get_cost", "get_reg", "kat", "get_results", "resume_session",
      "cancel_session", "get_expected" }
OtherModeFlags ==
    { "sample", "get", "post", "delete", "put", "post_resources",
      "mod_cert_req", "manual_reg" }
VectorFileOptions == { "vector_req", "vector_rsp", "vector_upload" }

CallOf ==
    [ f \in SingleShotFlags |->
        CASE f = "get_cost" -> "amvp_get_vector_set_count"
          [] f = "get_reg" -> "amvp_get_current_registration"
          [] f = "kat" -> "amvp_load_kat_filename"
          [] f = "get_results" -> "amvp_get_results_from_server"
          [] f = "resume_session" -> "amvp_resume_test_session"
          [] f = "cancel_session" -> "amvp_cancel_test_session"
          [] f = "get_expected" -> "amvp_get_expected_results" ]

\* f is the one mode flag set; no other mode flag, no vector file option
OnlyMode(f) ==
    /\ cfg[f]
    /\ \A g \in (SingleShotFlags \cup OtherModeFlags \cup VectorFileOptions) \ {f} :
          ~cfg[g]

SessionSetupSucceeded ==
    \E i \in 1 .. Len(calls) :
        calls[i] = [ fn |-> "app_setup_two_factor_auth", ok |-> TRUE ]

\* capability registration or FIPS metadata binding reported a failure
PrerequisiteFailed ==
    \/ Failed("amvp_cap_hash_enable")
    \/ Failed("amvp_cap_hash_set_domain")
    \/ Failed("amvp_oe_ingest_metadata")
    \/ Failed("amvp_oe_set_fips_validation_metadata")

\* the calls whose failure main() tests and answers by leaving
FatalFns ==
    { "ingest_cli", "EVP_default_properties_enable_fips", "fips_sanity_check",
      "amvp_create_test_session", "amvp_set_server", "amvp_set_api_context",
      "amvp_set_path_segment", "amvp_set_cacerts", "amvp_set_certkey",
      "app_setup_two_factor_auth", "amvp_mark_as_get_only",
      "amvp_set_json_filename", "amvp_cap_hash_enable",
      "amvp_cap_hash_set_domain", "amvp_oe_ingest_metadata",
      "amvp_oe_set_fips_validation_metadata" }
NoFatalFailure == ~FailedAny(FatalFns)

NetworkFns ==
    { "amvp_get_current_registration", "amvp_upload_vectors_from_file",
      "amvp_put_data_from_file", "amvp_get_results_from_server",
      "amvp_resume_test_session", "amvp_cancel_test_session",
      "amvp_get_expected_results", "amvp_run" }
NetworkCalled == \E i \in 1 .. Len(calls) : calls[i].fn \in NetworkFns

ConflictPrinted ==
    Printed("Offline vector processing requires both options, --vector_req and --vector_rsp")

(* ------------------------------- C1 ------------------------------------ *)
\* C1 as stated: with exactly one single-shot mode flag set, no other mode
\* flag or vector file option, and session setup succeeded, the run ends
\* having made that flag's call exactly once, none of the other six, and
\* no amvp_run.
C1_Original ==
    pc = "done" =>
        \A f \in SingleShotFlags :
            (OnlyMode(f) /\ SessionSetupSucceeded) =>
                /\ Count(CallOf[f]) = 1
                /\ \A g \in SingleShotFlags \ {f} : Count(CallOf[g]) = 0
                /\ Count("amvp_run") = 0

\* C1 (amended): under the same conditions none of the other six calls and
\* no amvp_run is ever made, the flag's own call is made at most once, and
\* at the end of the run it was made exactly once unless capability
\* registration or FIPS metadata binding failed, in which case it was not
\* made at all.
C1_SingleShotDispatch ==
    \A f \in SingleShotFlags :
        (OnlyMode(f) /\ SessionSetupSucceeded) =>
            /\ \A g \in SingleShotFlags \ {f} : Count(CallOf[g]) = 0
            /\ Count("amvp_run") = 0
            /\ Count(CallOf[f]) <= 1
            /\ pc = "done" => (Count(CallOf[f]) = 1 <=> ~PrerequisiteFailed)

C1_Witness ==
    /\ pc = "done"
    /\ OnlyMode("cancel_session")
    /\ cfg.fips_validation
    /\ SessionSetupSucceeded
    /\ Count("amvp_cancel_test_session") = 1

C3_ExitZeroIffAllSucceeded ==
    pc = "done" =>
        (exit_status = 0 <=> \A i \in 1 .. Len(calls) : calls[i].ok)

(* ------------------------------- C4 ------------------------------------ *)
\* C4 as stated: every finished run has invoked teardown exactly once.
C4_Original == pc = "done" => Count("amvp_cleanup") = 1

\* C4 (amended): teardown is never invoked twice; a finished run that got
\* as far as amvp_create_test_session invoked it exactly once, and a run
\* that left before (ingest_cli or FIPS startup failure) did not invoke it.
C4_TeardownOncePerSession ==
    /\ \A i \in 1 .. Len(calls) :
          calls[i].fn = "amvp_cleanup" =>
              \A j \in (i + 1) .. Len(calls) : calls[j].fn # "amvp_cleanup"
    /\ pc = "done" =>
          Count("amvp_cleanup") =
              IF Called("amvp_create_test_session") THEN 1 ELSE 0

C4_Witness ==
    /\ pc = "done"
    /\ Failed("amvp_create_test_session")
    /\ Count("amvp_cleanup") = 1

(* ------------------------------- C5 ------------------------------------ *)
\* C5: a run that ended on the vector-file conflict returns non-zero, has
\* printed the conflict message and made no network-contacting call.
C5_ConflictExitsNonZero ==
    (pc = "done" /\ ~cfg.vector_req /\ cfg.vector_rsp /\ NoFatalFailure) =>
        /\ exit_status # 0
        /\ ConflictPrinted
        /\ ~NetworkCalled

(* ------------------------------- C6 ------------------------------------ *)
\* C6 as stated: with vector_req and vector_rsp both set, amvp_run is never
\* invoked and a run in which no tested call failed has invoked
\* amvp_run_vectors_from_file, whatever the other flags.
C6_Original ==
    (cfg.vector_req /\ cfg.vector_rsp) =>
        /\ ~Called("amvp_run")
        /\ (pc = "done" /\ NoFatalFailure) => Called("amvp_run_vectors_from_file")

\* C6 (amended): with both set, amvp_run is never invoked and
\* amvp_run_vectors_from_file at most once; a run in which no tested call
\* failed has invoked it exactly once unless get_cost, get_reg or kat is
\* set, which end the dispatch before the offline step.
C6_OfflineNeverRuns ==
    (cfg.vector_req /\ cfg.vector_rsp) =>
        /\ ~Called("amvp_run")
        /\ Count("amvp_run_vectors_from_file") <= 1
        /\ (pc = "done" /\ NoFatalFailure) =>
              (Count("amvp_run_vectors_from_file") = 1
                  <=> ~(cfg.get_cost \/ cfg.get_reg \/ cfg.kat))

C6_Witness ==
    /\ pc = "done"
    /\ cfg.vector_req /\ cfg.vector_rsp /\ cfg.resume_session
    /\ Called("amvp_run_vectors_from_file")

(* ------------------------------- C7 ------------------------------------ *)
\* C7: with manual_reg set neither hash capability call is ever invoked,
\* and once enable_hash has run amvp_set_json_filename was not invoked.
C7_ManualRegExcludesCapabilities ==
    /\ cfg.manual_reg =>
          ~Called("amvp_cap_hash_enable") /\ ~Called("amvp_cap_hash_set_domain")
    /\ Called("amvp_cap_hash_enable") => ~Called("amvp_set_json_filename")

C7_Witness ==
    /\ pc = "done"
    /\ cfg.manual_reg /\ cfg.hash
    /\ Failed("amvp_set_json_filename")

(* ------------------------------- C8 ------------------------------------ *)
EarlierTerminal ==
    cfg.get_cost \/ cfg.get_reg \/ cfg.kat \/ cfg.vector_rsp \/ cfg.vector_upload
LaterTerminal ==
    cfg.get_results \/ cfg.resume_session \/ cfg.cancel_session \/ cfg.get_expected

\* C8 as stated: a finished run with put set (no tested call failed) has
\* submitted directly and not marked when empty_alg is set, and has marked,
\* not submitted, and then run when it is not.
C8_Original ==
    (pc = "done" /\ NoFatalFailure /\ cfg.put) =>
        IF cfg.empty_alg
        THEN Called("amvp_put_data_from_file") /\ ~Called("amvp_mark_as_put_after_test")
        ELSE /\ Called("amvp_mark_as_put_after_test")
             /\ ~Called("amvp_put_data_from_file")
             /\ RunAfter("amvp_mark_as_put_after_test")

\* C8 (amended): with put and empty_alg the deferred mark is never made, and
\* the direct submit is made (once) when dispatch reaches the PUT step, i.e.
\* no tested call failed and none of get_cost, get_reg, kat, vector_rsp,
\* vector_upload is set.  With put and no empty_alg the direct submit is
\* never made, the deferred mark is made when dispatch reaches the PUT step,
\* and amvp_run follows the mark exactly when none of get_results,
\* resume_session, cancel_session, get_expected is set.
C8_PutBifurcation ==
    cfg.put =>
        IF cfg.empty_alg
        THEN /\ ~Called("amvp_mark_as_put_after_test")
             /\ Count("amvp_put_data_from_file") <= 1
             /\ (pc = "done" /\ NoFatalFailure /\ ~EarlierTerminal) =>
                   Count("amvp_put_data_from_file") = 1
        ELSE /\ ~Called("amvp_put_data_from_file")
             /\ (pc = "done" /\ NoFatalFailure /\ ~EarlierTerminal) =>
                   Count("amvp_mark_as_put_after_test") = 1
             /\ (pc = "done" /\ Called("amvp_mark_as_put_after_test")) =>
                   (RunAfter("amvp_mark_as_put_after_test") <=> ~LaterTerminal)

C8_Witness ==
    /\ pc = "done"
    /\ cfg.put /\ ~cfg.empty_alg
    /\ Failed("amvp_mark_as_put_after_test")
    /\ RunAfter("amvp_mark_as_put_after_test")

(* ------------------------------- C9 ------------------------------------ *)
\* C9: once dispatch is over, every invocation of
\* amvp_mark_as_post_resources and of amvp_mark_as_cert_req has been
\* followed by amvp_run, whatever the side action returned.
C9_SideActionsThenRun ==
    pc \in { "end", "done" } =>
        /\ RunAfter("amvp_mark_as_post_resources")
        /\ RunAfter("amvp_mark_as_cert_req")

C9_Witness ==
    /\ pc = "done"
    /\ Failed("amvp_mark_as_post_resources")
    /\ Failed("amvp_mark_as_cert_req")
    /\ Called("amvp_run")

(* ------------------------------- C10 ----------------------------------- *)
SingleShotFns ==
    { "amvp_get_vector_set_count", "amvp_get_current_registration",
      "amvp_load_kat_filename", "amvp_run_vectors_from_file",
      "amvp_upload_vectors_from_file", "amvp_put_data_from_file",
      "amvp_get_results_from_server", "amvp_resume_test_session",
      "amvp_cancel_test_session", "amvp_get_expected_results" }

\* C10: a run that invoked an administrative or single-shot operation never
\* invokes amvp_run.
C10_SingleShotNeverRuns ==
    (\E i \in 1 .. Len(calls) : calls[i].fn \in SingleShotFns) =>
        ~Called("amvp_run")

C10_Witness ==
    /\ pc = "done"
    /\ cfg.vector_upload /\ cfg.post_resources /\ cfg.mod_cert_req
    /\ Called("amvp_upload_vectors_from_file")

(* ------------------------------- C11 ----------------------------------- *)
\* the actions that carry the FIPS flag and the dispatch actions after them
FipsGuardedFns ==
    { "amvp_upload_vectors_from_file", "amvp_resume_test_session", "amvp_run",
      "amvp_put_data_from_file", "amvp_get_results_from_server",
      "amvp_cancel_test_session", "amvp_get_expected_results" }
FipsMetadataFns ==
    { "amvp_oe_ingest_metadata", "amvp_oe_set_fips_validation_metadata" }

\* every call after a failed call of one of fns is the teardown
OnlyTeardownAfterFailed(fns) ==
    \A i \in 1 .. Len(calls) :
        (calls[i].fn \in fns /\ ~calls[i].ok) =>
            \A j \in (i + 1) .. Len(calls) : calls[j].fn = "amvp_cleanup"

\* C11: with fips_validation set, each of the guarded actions is invoked
\* only after amvp_oe_ingest_metadata and then
\* amvp_oe_set_fips_validation_metadata returned success; when either
\* fails, dispatch is at teardown with a non-success rv, nothing but the
\* teardown follows, and main returns that non-success status.
C11_FipsMetadataFirst ==
    cfg.fips_validation =>
        /\ \A i \in 1 .. Len(calls) :
              calls[i].fn \in FipsGuardedFns =>
                  \E j \in 1 .. (i - 1), k \in 1 .. (i - 1) :
                      /\ j < k
                      /\ calls[j] = [ fn |-> "amvp_oe_ingest_metadata", ok |-> TRUE ]
                      /\ calls[k] = [ fn |-> "amvp_oe_set_fips_validation_metadata",
                                      ok |-> TRUE ]
        /\ FailedAny(FipsMetadataFns) =>
              /\ pc \in { "end", "done" }
              /\ rv # AMVP_SUCCESS
              /\ pc = "done" => exit_status = rv
              /\ OnlyTeardownAfterFailed(FipsMetadataFns)
              /\ \A fn \in FipsGuardedFns : ~Called(fn)

C11_Witness ==
    /\ pc = "done"
    /\ cfg.fips_validation /\ cfg.resume_session
    /\ Failed("amvp_oe_set_fips_validation_metadata")
    /\ exit_status # 0

(* ------------------------------- C12 ----------------------------------- *)
\* the terminal actions, highest priority first
TerminalFns ==
    << "amvp_get_vector_set_count", "amvp_get_current_registration",
       "amvp_load_kat_filename", "amvp_run_vectors_from_file",
       "amvp_upload_vectors_from_file", "amvp_put_data_from_file",
       "amvp_get_results_from_server", "amvp_resume_test_session",
       "amvp_cancel_test_session", "amvp_get_expected_results", "amvp_run" >>

\* the configuration asks for the terminal action of priority p
Selected(p) ==
    CASE p = 1 -> cfg.get_cost
      [] p = 2 -> cfg.get_reg
      [] p = 3 -> cfg.kat
      [] p = 4 -> cfg.vector_req /\ cfg.vector_rsp
      [] p = 5 -> cfg.vector_upload
      [] p = 6 -> cfg.empty_alg /\ cfg.put
      [] p = 7 -> cfg.get_results
      [] p = 8 -> cfg.resume_session
      [] p = 9 -> cfg.cancel_session
      [] p = 10 -> cfg.get_expected
      [] OTHER -> TRUE

TerminalFnSet == { TerminalFns[p] : p \in 1 .. Len(TerminalFns) }
Priority(fn) == CHOOSE p \in 1 .. Len(TerminalFns) : TerminalFns[p] = fn

TerminalCalls == { i \in 1 .. Len(calls) : calls[i].fn \in TerminalFnSet }

\* C12: at most one terminal action is invoked in a run, and an invoked one
\* is the highest-priority action the configuration selects (amvp_run being
\* selected by default); a finished run in which no tested call failed and
\* no vector-file conflict arose has invoked exactly that one.
C12_FirstMatchWins ==
    LET made == TerminalCalls
    IN  /\ Cardinality(made) <= 1
        /\ \A i \in made :
              LET p == Priority(calls[i].fn)
              IN  Selected(p) /\ \A q \in 1 .. (p - 1) : ~Selected(q)
        /\ (pc = "done" /\ NoFatalFailure /\ ~(cfg.vector_rsp /\ ~cfg.vector_req)) =>
              Cardinality(made) = 1

C12_Witness ==
    /\ pc = "done"
    /\ cfg.kat /\ cfg.get_results /\ cfg.get_expected
    /\ Called("amvp_load_kat_filename")
    /\ Cardinality(TerminalCalls) = 1

(* ------------------------------- C13 ----------------------------------- *)
CapabilityFns == { "amvp_cap_hash_enable", "amvp_cap_hash_set_domain" }

\* C13: when amvp_cap_hash_enable fails amvp_cap_hash_set_domain is not
\* invoked, and when either registration call fails dispatch is at teardown
\* and no call but the teardown follows the failed one.
C13_CapabilityFailureFatal ==
    \A i \in 1 .. Len(calls) :
        (calls[i].fn \in CapabilityFns /\ ~calls[i].ok) =>
            /\ calls[i].fn = "amvp_cap_hash_enable" =>
                  ~Called("amvp_cap_hash_set_domain")
            /\ pc \in { "end", "done" }
            /\ \A j \in (i + 1) .. Len(calls) : calls[j].fn = "amvp_cleanup"

C13_Witness ==
    /\ pc = "done"
    /\ cfg.hash /\ cfg.get_cost
    /\ Failed("amvp_cap_hash_set_domain")
    /\ ~Called("amvp_get_vector_set_count")

(* ------------------------------- C14 ----------------------------------- *)
\* the messages with which main() and enable_hash() report a failure
FailureMessages ==
    { "Failed to create AMVP context", "Failed to set server/port",
      "Failed to set URI prefix", "Failed to set CA certs",
      "Failed to set TLS cert/key", "Failed to mark as get only.",
      "Failed to set save file for get request, continuing anyway...",
      "Offline vector processing requires both options, --vector_req and --vector_rsp",
      "Failed to set json file within AMVP ctx",
      "Failed to register capability with libamvp",
      "Unable to get expected vector set count with given test session context.",
      "Error occured while getting current registration.",
      "Error occured while saving registration to file. Exiting...",
      "Failed to read validation_metadata_file",
      "Failed to set metadata for FIPS validation" }

\* the libamvp calls of the dispatch list that the claim names (the
\* two-factor setup reports inside app_setup_two_factor_auth and is left out)
DispatchFns ==
    { "amvp_load_kat_filename", "amvp_run_vectors_from_file",
      "amvp_upload_vectors_from_file", "amvp_put_data_from_file",
      "amvp_get_results_from_server", "amvp_resume_test_session",
      "amvp_cancel_test_session", "amvp_get_expected_results",
      "amvp_mark_as_post_resources", "amvp_mark_as_cert_req", "amvp_run" }

\* C14: when teardown is invoked after one of the dispatch calls returned
\* non-success, a failure message has been printed.
C14_NoSilentFailure ==
    (Called("amvp_cleanup") /\ \E fn \in DispatchFns : Failed(fn)) =>
        \E k \in 1 .. Len(printed) : printed[k] \in FailureMessages

(* ------------------------------- C15 ----------------------------------- *)
SaveFns == { "save_string_to_file", "amvp_set_get_save_file" }

\* C15: a finished run in which a save failed and every other call
\* succeeded returns what the run with the save succeeding returns, 0.
\* (Runs that end on the vector-file conflict are left out: their status
\* is the subject of C5.)
C15_FailedSaveKeepsOutcome ==
    ( /\ pc = "done"
      /\ ~ConflictPrinted
      /\ \E fn \in SaveFns : Failed(fn)
      /\ \A i \in 1 .. Len(calls) : ~calls[i].ok => calls[i].fn \in SaveFns ) =>
        exit_status = 0

(* ------------------------------- C16 ----------------------------------- *)
\* C16: a finished run in which amvp_mark_as_post_resources or
\* amvp_mark_as_cert_req returned non-success has invoked amvp_run and
\* returns a non-success status.
C16_SideFailureCarried ==
    ( /\ pc = "done"
      /\ Failed("amvp_mark_as_post_resources") \/ Failed("amvp_mark_as_cert_req") ) =>
        /\ Called("amvp_run")
        /\ exit_status # 0

(* ------------------------------- C17 ----------------------------------- *)
SetupFns ==
    { "amvp_create_test_session", "amvp_set_server", "amvp_set_api_context",
      "amvp_set_path_segment", "amvp_set_cacerts", "amvp_set_certkey",
      "app_setup_two_factor_auth" }

\* C17: when a session setup call fails, dispatch is at teardown and no
\* call but the teardown follows the failed one: no marking, no
\* registration, no dispatch action.
C17_SetupFailureStops ==
    \A i \in 1 .. Len(calls) :
        (calls[i].fn \in SetupFns /\ ~calls[i].ok) =>
            /\ pc \in { "end", "done" }
            /\ \A j \in (i + 1) .. Len(calls) : calls[j].fn = "amvp_cleanup"

C17_Witness ==
    /\ pc = "done"
    /\ cfg.sample /\ cfg.hash /\ cfg.kat
    /\ Failed("app_setup_two_factor_auth")
    /\ calls[Len(calls)].fn = "amvp_cleanup"

(* ------------------------------- C18 ----------------------------------- *)
\* C18: an invocation of amvp_cleanup is the last call of the run.
C18_TeardownLast ==
    \A i \in 1 .. Len(calls) : calls[i].fn = "amvp_cleanup" => i = Len(calls)

C18_Witness ==
    /\ pc = "done"
    /\ cfg.post_resources
    /\ Called("amvp_run")
    /\ calls[Len(calls)].fn = "amvp_cleanup"

====
